---- MODULE Spec2Model ----
(***************************************************************************)
(* Rolling temporal aggregation (functions/src/aggregation.ts) and its     *)
(* percentage view (functions/src/view.ts).                                *)
(*                                                                         *)
(* One aggregation document {slots, overflow} and one view document are    *)
(* shared by the three cloud functions EventAdded, SlotPassed and the      *)
(* view's Mapper.  Every function body runs inside db.runTransaction: it   *)
(* reads the aggregation document, computes its writes from that read and  *)
(* commits them; the store commits only against an unchanged read and      *)
(* re-runs the body otherwise.                                             *)
(***************************************************************************)
EXTENDS Integers, Sequences, FiniteSets, TLC

VARIABLES
    clock,        \* wall clock, epoch seconds
    aggExists,    \* aggregations/{aggregationId} exists
    slots,        \* field 'slots' of the aggregation document
    overflow,     \* field 'overflow' of the aggregation document
    aggVersion,   \* update time of the aggregation document (commit count)
    view,         \* the view document
    pc,           \* per handler instance: "idle", "get", "commit"
    inv,          \* per handler instance: the invocation it is running
    snap,         \* per handler instance: what transaction.get returned
    started,      \* number of invocations triggered so far
    log           \* finished invocations, in the order they finished, each
                  \* with the aggregation document it finished on

vars == <<clock, aggExists, slots, overflow, aggVersion, view,
          pc, inv, snap, started, log>>

aggVars == <<aggExists, slots, overflow, aggVersion>>
viewVars == <<view>>

----------------------------------------------------------------------------
(* Configuration and bounds *)

\* TemporalAggregation.timespan: slot width in minutes
timespan == 1

\* TemporalAggregation.size: number of retained slots
size == 2

\* invocations triggered in one behaviour, one handler instance at a time
MaxOps == 3

\* invocations triggered in one behaviour with concurrent handler instances
MaxConcurrentOps == 2

\* invocations triggered in one behaviour that starts from a populated document
MaxSeededOps == 2

\* invocations triggered in one behaviour of the fair specification, not
\* counting the SlotPassed run that drains a non-empty overflow
MaxFairOps == 2

\* the clock runs over this many slot widths
MaxWindows == 1

timespanSecs == timespan * 60

Procs == {"h1", "h2"}

Categories == {"WALK", "WHEELS", "TRANSIT", "CAR"}

\* values of event.get('type'): known categories and one unknown string
EventTypes == {"WALK", "WHEELS", "BIKE"}

\* values of event.get('timestamp')
PayloadTimes == {0, MaxWindows * timespanSecs}

NaN == "NaN"

Min(a, b) == IF a < b THEN a ELSE b

----------------------------------------------------------------------------
(* Slot model *)

CreateTemporalSlot(start, end) ==
    [bounds |-> [start |-> start, end |-> end],
     WALK |-> 0, WHEELS |-> 0, TRANSIT |-> 0, CAR |-> 0]

\* slot[type]++ : a category counter goes up by one; any other key is
\* undefined (or already NaN), and undefined + 1 is NaN, stored under that key.
Increment(slot, type) ==
    IF type \in Categories
    THEN [slot EXCEPT ![type] = @ + 1]
    ELSE IF type \in DOMAIN slot
         THEN slot
         ELSE slot @@ (type :> NaN)

\* slots[slots.length - 1]
LastOf(s) == s[Len(s)]

\* Array.prototype.splice(0, diff): drops the first diff elements (all of
\* them when diff exceeds the length, none when diff <= 0)
SpliceFront(s, diff) ==
    IF diff <= 0 THEN s
    ELSE SubSeq(s, Min(diff, Len(s)) + 1, Len(s))

RECURSIVE DrainInBounds(_, _)
DrainInBounds(slot, events) ==
    IF events = <<>> THEN slot
    ELSE DrainInBounds(
            IF Head(events).timestamp >= slot.bounds.start
               /\ Head(events).timestamp <= slot.bounds.end
            THEN Increment(slot, Head(events).type)
            ELSE slot,
            Tail(events))

\* for (const event of overflow) nextSlot[event.type]++
RECURSIVE Drain(_, _)
Drain(slot, events) ==
    IF events = <<>> THEN slot
    ELSE Drain(Increment(slot, Head(events).type), Tail(events))

----------------------------------------------------------------------------
(* Transaction bodies: the writes computed from the document read *)

EventAddedAtOrAfterEnd(doc, type, now, timestamp) ==
    LET s1 == IF Len(doc.slots) = 0
              THEN <<CreateTemporalSlot(now, now + timespanSecs - 1)>>
              ELSE doc.slots
        lastBucket == LastOf(s1)
    IN  IF now >= lastBucket.bounds.end
        THEN [slots |-> s1,
              overflow |-> Append(doc.overflow,
                                  [type |-> type, timestamp |-> timestamp])]
        ELSE [slots |-> [s1 EXCEPT ![Len(s1)] = Increment(@, type)],
              overflow |-> doc.overflow]

EventAddedByPayloadTime(doc, type, now, timestamp) ==
    LET s1 == IF Len(doc.slots) = 0
              THEN <<CreateTemporalSlot(now, now + timespanSecs - 1)>>
              ELSE doc.slots
        lastBucket == LastOf(s1)
    IN  IF timestamp > lastBucket.bounds.end
        THEN [slots |-> s1,
              overflow |-> Append(doc.overflow,
                                  [type |-> type, timestamp |-> timestamp])]
        ELSE [slots |-> [s1 EXCEPT ![Len(s1)] = Increment(@, type)],
              overflow |-> doc.overflow]

EventAddedBootstrapUncounted(doc, type, now, timestamp) ==
    IF Len(doc.slots) = 0
    THEN [slots |-> <<CreateTemporalSlot(now, now + timespanSecs - 1)>>,
          overflow |-> doc.overflow]
    ELSE IF now > LastOf(doc.slots).bounds.end
         THEN [slots |-> doc.slots,
               overflow |-> Append(doc.overflow,
                                   [type |-> type, timestamp |-> timestamp])]
         ELSE [slots |-> [doc.slots EXCEPT ![Len(doc.slots)] =
                             Increment(@, type)],
               overflow |-> doc.overflow]

EventAddedOnce(doc, type, now, timestamp) ==
    LET s1 == IF Len(doc.slots) = 0
              THEN <<CreateTemporalSlot(now, now + timespanSecs - 1)>>
              ELSE doc.slots
        lastBucket == LastOf(s1)
        entry == [type |-> type, timestamp |-> timestamp]
    IN  IF now > lastBucket.bounds.end
        THEN [slots |-> s1,
              overflow |-> IF \E i \in 1..Len(doc.overflow) :
                                 doc.overflow[i] = entry
                           THEN doc.overflow
                           ELSE Append(doc.overflow, entry)]
        ELSE [slots |-> [s1 EXCEPT ![Len(s1)] = Increment(@, type)],
              overflow |-> doc.overflow]

EventAddedBootstrapOffByOne(doc, type, now, timestamp) ==
    LET s1 == IF Len(doc.slots) = 0
              THEN <<CreateTemporalSlot(now, now + timespanSecs)>>
              ELSE doc.slots
        lastBucket == LastOf(s1)
    IN  IF now > lastBucket.bounds.end
        THEN [slots |-> s1,
              overflow |-> Append(doc.overflow,
                                  [type |-> type, timestamp |-> timestamp])]
        ELSE [slots |-> [s1 EXCEPT ![Len(s1)] = Increment(@, type)],
              overflow |-> doc.overflow]

EventAddedCountsAndBuffers(doc, type, now, timestamp) ==
    LET s1 == IF Len(doc.slots) = 0
              THEN <<CreateTemporalSlot(now, now + timespanSecs - 1)>>
              ELSE doc.slots
        lastBucket == LastOf(s1)
    IN  IF now > lastBucket.bounds.end
        THEN [slots |-> [s1 EXCEPT ![Len(s1)] = Increment(@, type)],
              overflow |-> Append(doc.overflow,
                                  [type |-> type, timestamp |-> timestamp])]
        ELSE [slots |-> [s1 EXCEPT ![Len(s1)] = Increment(@, type)],
              overflow |-> doc.overflow]

\* EventAdded: the update {slots, overflow} computed from the read document
EventAddedUpdate(doc, type, now, timestamp) ==
    LET s1 == IF Len(doc.slots) = 0
              THEN <<CreateTemporalSlot(now, now + timespanSecs - 1)>>
              ELSE doc.slots
        lastBucket == LastOf(s1)
    IN  IF now > lastBucket.bounds.end
        THEN [slots |-> s1,
              overflow |-> Append(doc.overflow,
                                  [type |-> type, timestamp |-> timestamp])]
        ELSE [slots |-> [s1 EXCEPT ![Len(s1)] = Increment(@, type)],
              overflow |-> doc.overflow]

NextBoundsCatchUp(s, now) ==
    IF Len(s) = 0 \/ now > LastOf(s).bounds.end + timespanSecs
    THEN [start |-> now, end |-> now + (timespanSecs - 1)]
    ELSE [start |-> LastOf(s).bounds.end + 1,
          end |-> LastOf(s).bounds.end + 1 + timespanSecs - 1]

NextBoundsOffByOne(s, now) ==
    IF Len(s) = 0
    THEN [start |-> now, end |-> now + (timespanSecs - 1)]
    ELSE [start |-> LastOf(s).bounds.end + 1,
          end |-> LastOf(s).bounds.end + 1 + timespanSecs]

NextBoundsFromNow(s, now) ==
    [start |-> now, end |-> now + (timespanSecs - 1)]

\* SlotPassed: bounds of the slot the tick creates
NextBounds(s, now) ==
    IF Len(s) = 0
    THEN [start |-> now, end |-> now + (timespanSecs - 1)]
    ELSE [start |-> LastOf(s).bounds.end + 1,
          end |-> LastOf(s).bounds.end + 1 + timespanSecs - 1]

EvictOne(s) ==
    IF Len(s) > size THEN SpliceFront(s, 1) ELSE s

\* SlotPassed: if (slots.length > size) slots.splice(0, slots.length - size)
Evict(s) ==
    IF Len(s) > size THEN SpliceFront(s, Len(s) - size) ELSE s

SlotPassedDropsOverflow(doc, now) ==
    LET b == NextBounds(doc.slots, now)
        nextSlot == CreateTemporalSlot(b.start, b.end)
    IN  [slots |-> Evict(Append(doc.slots, nextSlot)),
         overflow |-> <<>>]

SlotPassedKeepsOverflow(doc, now) ==
    LET b == NextBounds(doc.slots, now)
        nextSlot == Drain(CreateTemporalSlot(b.start, b.end), doc.overflow)
    IN  [slots |-> Evict(Append(doc.slots, nextSlot)),
         overflow |-> doc.overflow]

SlotPassedDrainIntoLast(doc, now) ==
    LET b == NextBounds(doc.slots, now)
        nextSlot == CreateTemporalSlot(b.start, b.end)
        drained == IF Len(doc.slots) = 0 THEN doc.slots
                   ELSE [doc.slots EXCEPT ![Len(doc.slots)] =
                            Drain(@, doc.overflow)]
    IN  [slots |-> Evict(Append(drained, nextSlot)),
         overflow |-> <<>>]

SlotPassedOncePerWindow(doc, now) ==
    LET b == NextBounds(doc.slots, now)
        nextSlot == Drain(CreateTemporalSlot(b.start, b.end), doc.overflow)
    IN  IF Len(doc.slots) > 0 /\ now <= LastOf(doc.slots).bounds.end
        THEN [slots |-> doc.slots, overflow |-> doc.overflow]
        ELSE [slots |-> Evict(Append(doc.slots, nextSlot)),
              overflow |-> <<>>]

\* SlotPassed: the update {slots, overflow: []} computed from the read document
SlotPassedUpdate(doc, now) ==
    LET b == NextBounds(doc.slots, now)
        nextSlot == Drain(CreateTemporalSlot(b.start, b.end), doc.overflow)
    IN  [slots |-> Evict(Append(doc.slots, nextSlot)),
         overflow |-> <<>>]

----------------------------------------------------------------------------
(* View mapper *)

RECURSIVE GCD(_, _)
GCD(a, b) == IF b = 0 THEN a ELSE GCD(b, a % b)

\* a / b on non-negative numbers, as a fraction in lowest terms; 0/0 is NaN
\* (written num 0, den 0) and a/0 with a > 0 is Infinity (num 1, den 0)
Quot(a, b) ==
    IF b = 0
    THEN [num |-> IF a = 0 THEN 0 ELSE 1, den |-> 0]
    ELSE [num |-> a \div GCD(a, b), den |-> b \div GCD(a, b)]

RECURSIVE TotalsOverwritten(_, _)
TotalsOverwritten(s, acc) ==
    IF s = <<>> THEN acc
    ELSE TotalsOverwritten(Tail(s),
                           <<Head(s).WALK, Head(s).WHEELS,
                             Head(s).TRANSIT, Head(s).CAR>>)

\* for (const slot of slots) totals[i] += slot.<category>
RECURSIVE Totals(_, _)
Totals(s, acc) ==
    IF s = <<>> THEN acc
    ELSE Totals(Tail(s),
                <<acc[1] + Head(s).WALK, acc[2] + Head(s).WHEELS,
                  acc[3] + Head(s).TRANSIT, acc[4] + Head(s).CAR>>)

ConvertTemporalAggregationToPercentages(s, at) ==
    LET totals == Totals(s, <<0, 0, 0, 0>>)
        sum == totals[1] + totals[2] + totals[3] + totals[4]
    IN  [WALK |-> Quot(totals[1], sum),
         WHEELS |-> Quot(totals[2], sum),
         TRANSIT |-> Quot(totals[3], sum),
         CAR |-> Quot(totals[4], sum),
         updated |-> at]

----------------------------------------------------------------------------
(* State machine *)

NoInv == [kind |-> "none", type |-> "", now |-> 0, timestamp |-> 0,
          attempt |-> 0]
NoSnap == [exists |-> FALSE, slots |-> <<>>, overflow |-> <<>>,
           version |-> 0, at |-> 0]

\* the view document as first created: no share computed yet
InitView == [WALK |-> Quot(0, 1), WHEELS |-> Quot(0, 1),
             TRANSIT |-> Quot(0, 1), CAR |-> Quot(0, 1), updated |-> 0]

MaxClock == MaxWindows * timespanSecs

\* the clock visits the first and the last second of every slot width
ClockNext(c) ==
    IF c % timespanSecs = timespanSecs - 1
    THEN c + 1
    ELSE c - (c % timespanSecs) + timespanSecs - 1

InitCommon ==
    /\ clock = 0
    /\ aggVersion = 0
    /\ view = InitView
    /\ pc = [p \in Procs |-> "idle"]
    /\ inv = [p \in Procs |-> NoInv]
    /\ snap = [p \in Procs |-> NoSnap]
    /\ started = 0
    /\ log = <<>>

\* the aggregation document is created outside these functions, with no
\* slots and no overflow, or is missing
Init ==
    /\ InitCommon
    /\ aggExists \in BOOLEAN
    /\ slots = <<>>
    /\ overflow = <<>>

AdvanceClock ==
    /\ clock < MaxClock
    /\ clock' = ClockNext(clock)
    /\ UNCHANGED <<aggVars, viewVars, pc, inv, snap, started, log>>

Trigger(p, i, cap) ==
    /\ pc[p] = "idle"
    /\ started < cap
    /\ started' = started + 1
    /\ inv' = [inv EXCEPT ![p] = i]
    /\ pc' = [pc EXCEPT ![p] = "get"]
    /\ UNCHANGED <<clock, aggVars, viewVars, snap, log>>

\* onCreate of streams/{streamId}/events/{eventId}; now is event.createTime,
\* the time the event was written
OnEventCreated(p, cap) ==
    \E type \in EventTypes, timestamp \in PayloadTimes :
        Trigger(p, [kind |-> "event", type |-> type, now |-> clock,
                    timestamp |-> timestamp, attempt |-> 1], cap)

\* pubsub schedule of SlotPassed; now is context.timestamp in seconds
OnSlotSchedule(p, cap) ==
    Trigger(p, [kind |-> "tick", type |-> "", now |-> clock, timestamp |-> 0,
                attempt |-> 1], cap)

\* pubsub schedule of the view's Mapper
OnViewSchedule(p, cap) ==
    Trigger(p, [kind |-> "view", type |-> "", now |-> 0, timestamp |-> 0,
                attempt |-> 1], cap)

BodyNeverThrows(kind, exists) == FALSE

\* does the body throw on this read?  EventAdded and SlotPassed throw
\* 'Document does not exist.'; the mapper iterates aggregate.get('slots'),
\* which is undefined for a missing document, and throws a TypeError
BodyThrows(kind, exists) == ~exists

\* transaction.get(aggregationRef) and the body run on its result; the mapper
\* takes Date.now() while it runs
TxnGet(p) ==
    /\ pc[p] = "get"
    /\ ~BodyThrows(inv[p].kind, aggExists)
    /\ snap' = [snap EXCEPT ![p] =
                  [exists |-> aggExists, slots |-> slots, overflow |-> overflow,
                   version |-> aggVersion,
                   at |-> IF inv[p].kind = "view" THEN clock ELSE 0]]
    /\ pc' = [pc EXCEPT ![p] = "commit"]
    /\ UNCHANGED <<clock, aggVars, viewVars, inv, started, log>>

LogEntry(p, status) ==
    [kind |-> inv[p].kind, type |-> inv[p].type, now |-> inv[p].now,
     timestamp |-> inv[p].timestamp, attempt |-> inv[p].attempt,
     status |-> status,
     pre |-> [exists |-> aggExists, slots |-> slots, overflow |-> overflow]]

Finish(p, status) ==
    /\ pc' = [pc EXCEPT ![p] = "idle"]
    /\ log' = Append(log, LogEntry(p, status))
    /\ inv' = [inv EXCEPT ![p] = NoInv]
    /\ snap' = [snap EXCEPT ![p] = NoSnap]

\* the body throws: the transaction is abandoned, nothing is written
TxnThrow(p) ==
    /\ pc[p] = "get"
    /\ BodyThrows(inv[p].kind, aggExists)
    /\ Finish(p, "error")
    /\ UNCHANGED <<clock, aggVars, viewVars, started>>

ReadNeverChecked(p) == TRUE

\* runTransaction commits only if the document read is unchanged
ReadIsCurrent(p) == snap[p].version = aggVersion

WriteRefAggregation(kind) == "aggregation"

\* the document each function passes to transaction.update
WriteRef(kind) == IF kind = "view" THEN "view" ELSE "aggregation"

\* the update each function passes to transaction.update
Update(p) ==
    CASE inv[p].kind = "event" ->
            EventAddedUpdate(snap[p], inv[p].type, inv[p].now, inv[p].timestamp)
      [] inv[p].kind = "tick" -> SlotPassedUpdate(snap[p], inv[p].now)
      [] OTHER -> ConvertTemporalAggregationToPercentages(snap[p].slots, snap[p].at)

\* commit of EventAdded or SlotPassed: transaction.update(aggregationRef, ...)
TxnCommitAggregation(p) ==
    /\ pc[p] = "commit"
    /\ inv[p].kind \in {"event", "tick"}
    /\ ReadIsCurrent(p)
    /\ WriteRef(inv[p].kind) = "aggregation"
    /\ slots' = Update(p).slots
    /\ overflow' = Update(p).overflow
    /\ aggVersion' = aggVersion + 1
    /\ Finish(p, "ok")
    /\ UNCHANGED <<clock, aggExists, viewVars, started>>

\* commit of the view's Mapper: transaction.update(viewRef, result); the view
\* document exists (it is created with the view's configuration)
TxnCommitView(p) ==
    /\ pc[p] = "commit"
    /\ inv[p].kind = "view"
    /\ ReadIsCurrent(p)
    /\ IF WriteRef(inv[p].kind) = "view"
       THEN /\ view' = Update(p)
            /\ UNCHANGED aggVersion
       ELSE /\ aggVersion' = aggVersion + 1
            /\ UNCHANGED view
    /\ Finish(p, "ok")
    /\ UNCHANGED <<clock, aggExists, slots, overflow, started>>

\* the document changed since it was read: runTransaction runs the body again
TxnRetry(p) ==
    /\ pc[p] = "commit"
    /\ ~ReadIsCurrent(p)
    /\ pc' = [pc EXCEPT ![p] = "get"]
    /\ inv' = [inv EXCEPT ![p].attempt = @ + 1]
    /\ snap' = [snap EXCEPT ![p] = NoSnap]
    /\ UNCHANGED <<clock, aggVars, viewVars, started, log>>

\* the steps of the handler instances in hs, with at most cap invocations
Handlers(hs, cap) ==
    \/ AdvanceClock
    \/ \E p \in hs : OnEventCreated(p, cap)
    \/ \E p \in hs : OnSlotSchedule(p, cap)
    \/ \E p \in hs : OnViewSchedule(p, cap)
    \/ \E p \in hs : TxnGet(p)
    \/ \E p \in hs : TxnThrow(p)
    \/ \E p \in hs : TxnCommitAggregation(p)
    \/ \E p \in hs : TxnCommitView(p)

\* invocations one after the other: a single handler instance
SerialNext == Handlers({"h1"}, MaxOps)

\* concurrent invocations
Next ==
    \/ Handlers(Procs, MaxConcurrentOps)
    \/ \E p \in Procs : TxnRetry(p)

\* invocations one after the other on a document that holds slots already
SeededNext == Handlers({"h1"}, MaxSeededOps)

\* documents left by earlier runs: n contiguous slots with counts, n up to
\* size + 2 (the retained count of a configuration with a larger size)
SeedSlots(n) ==
    [i \in 1..n |->
        [CreateTemporalSlot((i - 1) * timespanSecs, i * timespanSecs - 1)
            EXCEPT !.WALK = i, !.CAR = 1]]

ExampleSlots ==
    <<[CreateTemporalSlot(0, timespanSecs - 1) EXCEPT !.WALK = 3, !.WHEELS = 1]>>

SeedDocs ==
    {[slots |-> SeedSlots(n), overflow |-> <<>>] : n \in 0..(size + 2)}
    \cup {[slots |-> ExampleSlots, overflow |-> <<>>]}
    \cup {[slots |-> SeedSlots(size + 1),
           overflow |-> <<[type |-> "CAR", timestamp |-> 0]>>]}

InitSeeded ==
    /\ InitCommon
    /\ \/ /\ aggExists = TRUE
          /\ \E d \in SeedDocs : slots = d.slots /\ overflow = d.overflow
       \/ /\ aggExists = FALSE
          /\ slots = <<>>
          /\ overflow = <<>>

\* committed invocations in sequence, from an empty document
Spec == Init /\ [][SerialNext]_vars

\* concurrent invocations, serialised by the store's transactions
ConcurrentSpec == Init /\ [][Next]_vars

\* invocations in sequence, from a document that holds slots already
SeededSpec == InitSeeded /\ [][SeededNext]_vars

\* The schedule of SlotPassed keeps firing: beyond the invocations counted by
\* MaxFairOps, the firing that finds events waiting in overflow is kept.
OnSlotScheduleDue(p) ==
    /\ overflow # <<>>
    /\ OnSlotSchedule(p, MaxFairOps + 1)

\* the steps by which a started invocation runs to its end
Complete(p) ==
    \/ TxnGet(p)
    \/ TxnThrow(p)
    \/ TxnCommitAggregation(p)
    \/ TxnCommitView(p)

FairNext ==
    \/ Handlers({"h1"}, MaxFairOps)
    \/ OnSlotScheduleDue("h1")

\* A started function invocation runs to its end, and the scheduler fires
\* SlotPassed again and again ('every N minutes').
Fairness ==
    /\ WF_vars(Complete("h1"))
    /\ WF_vars(OnSlotScheduleDue("h1"))

FairSpec == Init /\ [][FairNext]_vars /\ Fairness

\* Time passes while nothing runs (the functions are not deployed, or the
\* scheduler misses firings): the clock skips two slot widths.
SkipWindows ==
    /\ clock < 2 * MaxClock
    /\ clock' = clock + 2 * timespanSecs
    /\ UNCHANGED <<aggVars, viewVars, pc, inv, snap, started, log>>

\* EventAdded and SlotPassed invocations one after the other, between gaps in
\* which none ran
LateNext ==
    \/ SkipWindows
    \/ OnEventCreated("h1", MaxOps)
    \/ OnSlotSchedule("h1", MaxOps)
    \/ TxnGet("h1")
    \/ TxnThrow("h1")
    \/ TxnCommitAggregation("h1")

LateSpec == Init /\ [][LateNext]_vars

----------------------------------------------------------------------------
(* Properties *)

Doc == [slots |-> slots, overflow |-> overflow]

\* the invocation that finished last, and whether it committed
Last == log[Len(log)]
Committed(kind) == log # <<>> /\ Last.kind = kind /\ Last.status = "ok"

\* C1: from an empty document, after any sequence of committed EventAdded and
\* SlotPassed invocations the retained slots are a contiguous chronological
\* tiling: each slot starts one second after the slot before it ends.
C1_Tiling ==
    \A i \in 1..(Len(slots) - 1) :
        /\ slots[i].bounds.end + 1 = slots[i + 1].bounds.start
        /\ slots[i].bounds.start < slots[i + 1].bounds.start
        /\ slots[i].bounds.end < slots[i + 1].bounds.end

C1_Witness ==
    /\ Len(slots) >= 2
    /\ \E i \in 1..Len(log) : log[i].kind = "event" /\ log[i].status = "ok"
    /\ Committed("tick")
    /\ Last.now # LastOf(slots).bounds.start

\* C2: after every committed SlotPassed, whatever the document held before
\* (more than size slots included), len(slots) = min(previous length + 1, size),
\* and the retained slots are the newest ones of the previous slots, in their
\* order, followed by the slot just created.
C2_TrimToSize ==
    Committed("tick") =>
        LET pre == Last.pre.slots
            n == Len(slots)
            m == Len(pre)
        IN  /\ n = Min(m + 1, size)
            /\ n <= size
            /\ n >= 1
            /\ \A i \in 1..(n - 1) : slots[i] = pre[m + 1 - n + i]
            /\ slots[n].bounds.start =
                  IF m = 0 THEN Last.now ELSE pre[m].bounds.end + 1
            /\ \A i \in 1..m : slots[n].bounds.start > pre[i].bounds.start

\* a tick on a document that held more than size slots dropped several
C2_Witness ==
    /\ Committed("tick")
    /\ Len(Last.pre.slots) > size
    /\ Len(slots) = size

\* C3 as claimed: an event whose payload timestamp is at most lastSlot.end is
\* counted in the last slot and leaves overflow alone, whatever its ingestion
\* time.
C3_ByPayloadTime ==
    (/\ Committed("event")
     /\ Last.type \in Categories
     /\ Last.pre.slots # <<>>
     /\ Last.timestamp <= LastOf(Last.pre.slots).bounds.end)
    => /\ Len(slots) = Len(Last.pre.slots)
       /\ LastOf(slots)[Last.type] = LastOf(Last.pre.slots)[Last.type] + 1
       /\ overflow = Last.pre.overflow

\* C3 amended: an event of a known category whose ingestion time (createTime)
\* is at most lastSlot.end is counted in the last slot, its counter going up
\* by exactly 1, and leaves overflow alone, whatever its payload timestamp.
C3_ByIngestionTime ==
    (/\ Committed("event")
     /\ Last.type \in Categories
     /\ Last.pre.slots # <<>>
     /\ Last.now <= LastOf(Last.pre.slots).bounds.end)
    => /\ Len(slots) = Len(Last.pre.slots)
       /\ LastOf(slots)[Last.type] = LastOf(Last.pre.slots)[Last.type] + 1
       /\ overflow = Last.pre.overflow

\* an event ingested in the last second of the window, payload time beyond it
C3_Witness ==
    /\ Committed("event")
    /\ Last.type \in Categories
    /\ Last.pre.slots # <<>>
    /\ Last.now = LastOf(Last.pre.slots).bounds.end
    /\ Last.timestamp > LastOf(Last.pre.slots).bounds.end
    /\ LastOf(slots)[Last.type] = 2

\* no counter and no bound of any slot differs between s and t
SameSlots(s, t) ==
    /\ Len(s) = Len(t)
    /\ \A i \in 1..Len(s) :
          /\ s[i].bounds = t[i].bounds
          /\ \A c \in Categories : s[i][c] = t[i][c]

\* C4 as claimed: an event whose payload timestamp is beyond lastSlot.end adds
\* exactly one entry to overflow and changes no slot counter, whatever its
\* ingestion time.
C4_ByPayloadTime ==
    (/\ Committed("event")
     /\ Last.pre.slots # <<>>
     /\ Last.timestamp > LastOf(Last.pre.slots).bounds.end)
    => /\ Len(overflow) = Len(Last.pre.overflow) + 1
       /\ SubSeq(overflow, 1, Len(Last.pre.overflow)) = Last.pre.overflow
       /\ SameSlots(slots, Last.pre.slots)

\* C4 amended: an event whose ingestion time (createTime) is beyond
\* lastSlot.end adds exactly one entry to overflow and changes no slot
\* counter, whatever its payload timestamp.
C4_ByIngestionTime ==
    (/\ Committed("event")
     /\ Last.pre.slots # <<>>
     /\ Last.now > LastOf(Last.pre.slots).bounds.end)
    => /\ Len(overflow) = Len(Last.pre.overflow) + 1
       /\ SubSeq(overflow, 1, Len(Last.pre.overflow)) = Last.pre.overflow
       /\ SameSlots(slots, Last.pre.slots)

\* an event ingested after the window closed, payload time inside it
C4_Witness ==
    /\ Committed("event")
    /\ Last.pre.slots # <<>>
    /\ Last.now > LastOf(Last.pre.slots).bounds.end
    /\ Last.timestamp <= LastOf(Last.pre.slots).bounds.end
    /\ Len(overflow) = Len(Last.pre.overflow) + 1

\* number of entries of overflow buffer o with type c
CountType(o, c) == Cardinality({i \in 1..Len(o) : o[i].type = c})

\* C5: after every committed SlotPassed overflow is empty and each category
\* counter of the slot just created is the number of overflow entries of that
\* category before the tick, whatever their timestamps.
C5_DrainIntoNewSlot ==
    Committed("tick") =>
        /\ overflow = <<>>
        /\ slots # <<>>
        /\ \A c \in Categories :
              LastOf(slots)[c] = CountType(Last.pre.overflow, c)

\* a drained entry whose timestamp lies outside the new slot's bounds
C5_Witness ==
    /\ Committed("tick")
    /\ \E i \in 1..Len(Last.pre.overflow) :
          /\ Last.pre.overflow[i].type \in Categories
          /\ Last.pre.overflow[i].timestamp < LastOf(slots).bounds.start
    /\ \E c \in Categories : LastOf(slots)[c] >= 1

\* the aggregation document a logged invocation finished on
PreDoc(i) == [slots |-> log[i].pre.slots, overflow |-> log[i].pre.overflow]

\* the document after logged invocation e is applied to document d on its own
Apply(d, e) ==
    IF e.status # "ok" THEN d
    ELSE CASE e.kind = "event" ->
                 EventAddedUpdate(d, e.type, e.now, e.timestamp)
           [] e.kind = "tick" -> SlotPassedUpdate(d, e.now)
           [] OTHER -> d

\* C6: with concurrent EventAdded and SlotPassed invocations the document is
\* the result of applying the committed invocations one after the other in
\* commit order: every commit applies its whole effect to the document the
\* commit before it left, so nothing is lost or computed from a stale read.
C6_Serializable ==
    \A i \in 1..Len(log) :
        Apply(PreDoc(i), log[i]) = IF i < Len(log) THEN PreDoc(i + 1) ELSE Doc

\* two invocations overlapped: both committed, one of them on a second attempt
C6_Witness ==
    /\ Len(log) = 2
    /\ \A i \in 1..2 : log[i].status = "ok" /\ log[i].kind \in {"event", "tick"}
    /\ log[1].kind # log[2].kind
    /\ log[2].attempt = 2

\* C7: on a missing aggregation document EventAdded and SlotPassed end in an
\* error and write nothing: no invocation commits, and no slots or overflow
\* value is stored.
C7_MissingDocument ==
    /\ \A i \in 1..Len(log) : log[i].status = "ok" => log[i].pre.exists
    /\ ~aggExists =>
          /\ slots = <<>>
          /\ overflow = <<>>
          /\ aggVersion = 0
          /\ \A i \in 1..Len(log) : log[i].status = "error"
          /\ \A p \in Procs : pc[p] # "commit"

\* an EventAdded and a SlotPassed invocation have both failed
C7_Witness ==
    /\ ~aggExists
    /\ \E i \in 1..Len(log) : log[i].kind = "event" /\ log[i].status = "error"
    /\ \E i \in 1..Len(log) : log[i].kind = "tick" /\ log[i].status = "error"

\* the last two finished invocations are committed SlotPassed runs
TwoTicks ==
    /\ Len(log) >= 2
    /\ Committed("tick")
    /\ log[Len(log) - 1].kind = "tick"
    /\ log[Len(log) - 1].status = "ok"

\* C8: two SlotPassed runs in immediate succession append two slots, not one:
\* the second run changes the document again, and its slot starts one second
\* after the end of the slot the first run created.
C8_TickNotIdempotent ==
    TwoTicks =>
        LET first == log[Len(log) - 1]
            d0 == first.pre.slots
            d1 == Last.pre.slots
        IN  /\ d1 # <<>>
            /\ slots # <<>>
            /\ LastOf(d1).bounds.start =
                  IF d0 = <<>> THEN first.now ELSE LastOf(d0).bounds.end + 1
            /\ LastOf(slots).bounds.start = LastOf(d1).bounds.end + 1
            /\ LastOf(slots).bounds # LastOf(d1).bounds
            /\ \A i \in 1..Len(d0) : d0[i].bounds # LastOf(d1).bounds
            /\ slots # d1
            /\ Len(slots) = Min(Len(d0) + 2, size)
            /\ size >= 2 => slots[Len(slots) - 1] = LastOf(d1)

\* the same tick delivered twice
C8_Witness ==
    /\ TwoTicks
    /\ log[Len(log) - 1].now = Last.now
    /\ Last.pre.slots # <<>>
    /\ LastOf(slots).bounds.start = LastOf(Last.pre.slots).bounds.end + 1

ViewCommitStep(p) ==
    pc[p] = "commit" /\ inv[p].kind = "view" /\ pc'[p] = "idle"

AggregationCommitStep(p) ==
    pc[p] = "commit" /\ inv[p].kind \in {"event", "tick"} /\ pc'[p] = "idle"

\* C9: the view document changes only in a commit of the view's Mapper and the
\* aggregation document only in a commit of EventAdded or SlotPassed; a Mapper
\* commit leaves the aggregation document as it is and an EventAdded or
\* SlotPassed commit leaves the view document as it is.
C9_Frame ==
    [][/\ view' # view => \E p \in Procs : ViewCommitStep(p)
       /\ aggVars' # aggVars => \E p \in Procs : AggregationCommitStep(p)
       /\ \A p \in Procs : ViewCommitStep(p) => aggVars' = aggVars
       /\ \A p \in Procs : AggregationCommitStep(p) => view' = view]_vars

\* the Mapper committed on its second attempt, after an EventAdded commit
C9_Witness ==
    /\ Committed("view")
    /\ Last.attempt = 2
    /\ view # InitView
    /\ \E i \in 1..Len(log) : log[i].kind = "event" /\ log[i].status = "ok"
    /\ slots # <<>>

\* total of category c over slots s
CatTotal(s, c) ==
    LET f[i \in 0..Len(s)] == IF i = 0 THEN 0 ELSE f[i - 1] + s[i][c]
    IN  f[Len(s)]

\* C10: when the counters of the retained slots sum to more than zero, the
\* Mapper writes for each category its total over all retained slots divided
\* by the sum of the four totals: each share lies in [0,1] and the four add
\* up to 1.
C10_Percentages ==
    Committed("view") =>
        LET s == Last.pre.slots
            sum == CatTotal(s, "WALK") + CatTotal(s, "WHEELS")
                   + CatTotal(s, "TRANSIT") + CatTotal(s, "CAR")
            dens == view.WALK.den * view.WHEELS.den
                    * view.TRANSIT.den * view.CAR.den
        IN  sum > 0 =>
              /\ \A c \in Categories :
                    /\ view[c].den > 0
                    /\ view[c].num * sum = CatTotal(s, c) * view[c].den
                    /\ 0 <= view[c].num
                    /\ view[c].num <= view[c].den
              /\ view.WALK.num * (dens \div view.WALK.den)
                 + view.WHEELS.num * (dens \div view.WHEELS.den)
                 + view.TRANSIT.num * (dens \div view.TRANSIT.den)
                 + view.CAR.num * (dens \div view.CAR.den) = dens

\* one slot {WALK:3, WHEELS:1, TRANSIT:0, CAR:0} gives 3/4, 1/4, 0, 0
C10_Witness ==
    /\ Committed("view")
    /\ Last.pre.slots = ExampleSlots
    /\ view.WALK = [num |-> 3, den |-> 4]
    /\ view.WHEELS = [num |-> 1, den |-> 4]
    /\ view.TRANSIT = [num |-> 0, den |-> 1]
    /\ view.CAR = [num |-> 0, den |-> 1]

\* C11 as claimed: when the counters of the retained slots sum to zero (all
\* zero, or no slots) the Mapper handles the case: no share it writes into the
\* view document is the result of a division by zero.
C11_NoDivisionByZero ==
    Committed("view") =>
        LET s == Last.pre.slots
            sum == CatTotal(s, "WALK") + CatTotal(s, "WHEELS")
                   + CatTotal(s, "TRANSIT") + CatTotal(s, "CAR")
        IN  sum = 0 => \A c \in Categories : view[c].den # 0

\* the last committed EventAdded appended its {type, timestamp} entry to the
\* end of overflow and changed no slot
Buffered ==
    /\ overflow = Append(Last.pre.overflow,
                         [type |-> Last.type, timestamp |-> Last.timestamp])
    /\ SameSlots(slots, Last.pre.slots)

\* the last committed EventAdded raised the counter of its category in the last
\* slot by one (from 0 in a slot it created) and changed nothing else
Counted ==
    LET pre == Last.pre.slots
        n == Len(pre)
    IN  /\ overflow = Last.pre.overflow
        /\ Len(slots) = IF n = 0 THEN 1 ELSE n
        /\ \A i \in 1..(n - 1) : slots[i] = pre[i]
        /\ n > 0 => LastOf(slots).bounds = pre[n].bounds
        /\ \A c \in Categories :
              LastOf(slots)[c] = (IF n = 0 THEN 0 ELSE pre[n][c])
                                 + (IF c = Last.type THEN 1 ELSE 0)

\* C12: every committed EventAdded of a known category makes exactly one
\* change: with ingestion time beyond lastSlot.end it appends one entry
\* {type, payload timestamp} to the end of overflow and changes no counter,
\* otherwise it raises one counter of the last slot by one and leaves overflow
\* alone; never both, never neither, and len(slots) changes only from 0 to 1.
C12_ExactlyOneChange ==
    (Committed("event") /\ Last.type \in Categories) =>
        LET pre == Last.pre.slots
            n == Len(pre)
        IN  /\ (n > 0 /\ Last.now > pre[n].bounds.end) => Buffered
            /\ (n > 0 /\ Last.now <= pre[n].bounds.end) => Counted
            /\ n = 0 => Counted
            /\ Buffered # Counted
            /\ Len(slots) # n => (n = 0 /\ Len(slots) = 1)

\* a second entry was appended behind one already buffered
C12_Witness ==
    /\ Committed("event")
    /\ Last.type \in Categories
    /\ Last.pre.overflow # <<>>
    /\ Buffered
    /\ overflow[Len(overflow)] # overflow[1]

\* C13: on a document with no slots a committed EventAdded creates exactly one
\* slot, with start = now (the event's ingestion time) and
\* end = now + timespan * 60 - 1, and counts the event in it: the counter of
\* its category is 1, every other counter 0, and overflow stays as it was.
C13_Bootstrap ==
    (Committed("event") /\ Last.pre.slots = <<>>) =>
        /\ Len(slots) = 1
        /\ slots[1].bounds.start = Last.now
        /\ slots[1].bounds.end = Last.now + timespan * 60 - 1
        /\ overflow = Last.pre.overflow
        /\ overflow = <<>>
        /\ \A c \in Categories :
              slots[1][c] = IF c = Last.type THEN 1 ELSE 0

\* the first event of a known category arrived after the clock had moved on
C13_Witness ==
    /\ Committed("event")
    /\ Last.pre.slots = <<>>
    /\ Last.type \in Categories
    /\ Last.now > 0
    /\ slots[1][Last.type] = 1

\* the last committed invocation appended a slot: a SlotPassed, or an
\* EventAdded on a document without slots
AppendedSlot == Last.kind = "tick" \/ Last.pre.slots = <<>>

\* how many of the slots the last committed invocation read are gone
Evicted == Len(Last.pre.slots) + (IF AppendedSlot THEN 1 ELSE 0) - Len(slots)

\* C14: a committed EventAdded or SlotPassed leaves every retained slot that
\* is older than the last one exactly as it was (bounds and counters); it may
\* only drop slots from the front. Of the slots it read, only the last can
\* differ afterwards, and only by counters that did not decrease; once a slot
\* has been appended behind it, that slot is frozen too.
C14_OlderSlotsFrozen ==
    (Committed("event") \/ Committed("tick")) =>
        LET pre == Last.pre.slots
            m == Len(pre)
        IN  /\ Evicted >= 0
            /\ Evicted <= m
            /\ \A j \in (Evicted + 1)..m :
                  LET kept == slots[j - Evicted]
                  IN  /\ kept.bounds = pre[j].bounds
                      /\ \A c \in Categories : kept[c] >= pre[j][c]
                      /\ (j < m \/ AppendedSlot) => kept = pre[j]

\* an event was counted in the last slot while an older slot, which holds a
\* count of its own, stayed as it was
C14_Witness ==
    /\ Committed("event")
    /\ Len(Last.pre.slots) >= 2
    /\ slots[1] = Last.pre.slots[1]
    /\ \E c \in Categories : slots[1][c] >= 1
    /\ LastOf(slots) # LastOf(Last.pre.slots)

\* the aggregation document logged invocation i left behind
PostDoc(i) == IF i < Len(log) THEN PreDoc(i + 1) ELSE Doc

\* logged invocations that are committed EventAdded runs which made overflow
\* one entry longer, with no SlotPassed committed after them
BufferedSinceTick ==
    {i \in 1..Len(log) :
        /\ log[i].kind = "event"
        /\ log[i].status = "ok"
        /\ Len(PostDoc(i).overflow) = Len(PreDoc(i).overflow) + 1
        /\ \A j \in (i + 1)..Len(log) :
              ~(log[j].kind = "tick" /\ log[j].status = "ok")}

\* C15: the clock never goes back and an event's ingestion time is at most the
\* current time. Then whenever overflow is non-empty, slots is non-empty, every
\* entry of overflow was buffered after the last committed SlotPassed, and the
\* current time is beyond lastSlot.end as it was when the entry was buffered;
\* and every committed SlotPassed leaves overflow empty.
C15_OverflowMeansWindowClosed ==
    /\ overflow # <<>> =>
          /\ slots # <<>>
          /\ Cardinality(BufferedSinceTick) = Len(overflow)
          /\ \A i \in BufferedSinceTick :
                /\ log[i].pre.slots # <<>>
                /\ log[i].now <= clock
                /\ clock > LastOf(log[i].pre.slots).bounds.end
                /\ LastOf(log[i].pre.slots).bounds = LastOf(slots).bounds
    /\ Committed("tick") => overflow = <<>>

\* two events are waiting in overflow after the last slot's window has closed
C15_Witness ==
    /\ Len(overflow) = 2
    /\ slots # <<>>
    /\ clock > LastOf(slots).bounds.end
    /\ Cardinality(BufferedSinceTick) = 2

\* the last committed SlotPassed found entries in overflow and counted each of
\* them in the slot it created
DrainedByTick ==
    /\ Committed("tick")
    /\ Last.pre.overflow # <<>>
    /\ overflow = <<>>
    /\ \A c \in Categories :
          LastOf(slots)[c] = CountType(Last.pre.overflow, c)

\* C16: when the SlotPassed schedule keeps firing and its runs commit, every
\* event of a known category buffered in overflow is eventually counted in a
\* slot: a committed SlotPassed adds the buffered entries of that category to
\* the counter of the slot it creates.
C16_EventuallyCounted ==
    \A c \in Categories :
        (CountType(overflow, c) > 0) ~> (DrainedByTick /\ LastOf(slots)[c] > 0)

\* the draining run came after all counted invocations had been used up
C16_Witness ==
    /\ DrainedByTick
    /\ started > MaxFairOps
    /\ \E c \in Categories : LastOf(slots)[c] > 0

\* C17: every slot created by the bootstrap of EventAdded or by SlotPassed has
\* start <= end and end - start = timespan * 60 - 1, in every reachable state;
\* and when slots exist, the slot a committed SlotPassed creates is
\* [lastSlot.end + 1, lastSlot.end + timespan * 60], whatever the timestamp of
\* the tick.
C17_SlotWidth ==
    /\ \A i \in 1..Len(slots) :
          /\ slots[i].bounds.start <= slots[i].bounds.end
          /\ slots[i].bounds.end - slots[i].bounds.start = timespan * 60 - 1
    /\ (Committed("tick") /\ Last.pre.slots # <<>>) =>
          LET lastEnd == LastOf(Last.pre.slots).bounds.end
          IN  /\ LastOf(slots).bounds.start = lastEnd + 1
              /\ LastOf(slots).bounds.end = lastEnd + timespan * 60

\* a tick whose timestamp still lay inside the last slot's window
C17_Witness ==
    /\ Committed("tick")
    /\ Last.pre.slots # <<>>
    /\ Last.now > LastOf(Last.pre.slots).bounds.start
    /\ Last.now <= LastOf(Last.pre.slots).bounds.end
    /\ Len(slots) >= 2

\* logged invocations i < j are committed EventAdded runs for the same event of
\* a known category: same type, ingestion time and payload timestamp
SameEvent(i, j) ==
    /\ i < j
    /\ log[i].kind = "event" /\ log[i].status = "ok"
    /\ log[j].kind = "event" /\ log[j].status = "ok"
    /\ log[i].type \in Categories
    /\ log[i].type = log[j].type
    /\ log[i].now = log[j].now
    /\ log[i].timestamp = log[j].timestamp

\* logged EventAdded i raised the slot counters of its category by one in all
\* and left overflow alone
CountedAt(i) ==
    /\ CatTotal(PostDoc(i).slots, log[i].type)
          = CatTotal(PreDoc(i).slots, log[i].type) + 1
    /\ PostDoc(i).overflow = PreDoc(i).overflow

\* logged EventAdded i appended its entry to overflow and changed no counter
BufferedAt(i) ==
    /\ PostDoc(i).overflow =
          Append(PreDoc(i).overflow,
                 [type |-> log[i].type, timestamp |-> log[i].timestamp])
    /\ SameSlots(PostDoc(i).slots, PreDoc(i).slots)

\* C18: EventAdded does not deduplicate. When the same event (same type,
\* ingestion time and payload timestamp) is delivered twice, each delivery
\* changes the document and counts: each is a counter increment or a new
\* overflow entry, so the two are two increments, two overflow entries, or one
\* of each, the last only when a SlotPassed committed between them.
C18_NotIdempotent ==
    \A i \in 1..Len(log), j \in 1..Len(log) :
        SameEvent(i, j) =>
            /\ CountedAt(i) # BufferedAt(i)
            /\ CountedAt(j) # BufferedAt(j)
            /\ PostDoc(j) # PreDoc(j)
            /\ CountedAt(i) # CountedAt(j) =>
                  \E k \in (i + 1)..(j - 1) :
                      log[k].kind = "tick" /\ log[k].status = "ok"
            /\ j = i + 1 =>
                  \/ /\ PostDoc(j).overflow = PreDoc(i).overflow
                     /\ CatTotal(PostDoc(j).slots, log[i].type)
                           = CatTotal(PreDoc(i).slots, log[i].type) + 2
                  \/ /\ Len(PostDoc(j).overflow) = Len(PreDoc(i).overflow) + 2
                     /\ SameSlots(PostDoc(j).slots, PreDoc(i).slots)

\* the same event was buffered twice: overflow holds two equal entries
C18_Witness ==
    /\ Len(log) >= 2
    /\ SameEvent(Len(log) - 1, Len(log))
    /\ BufferedAt(Len(log) - 1)
    /\ BufferedAt(Len(log))
    /\ Len(overflow) = 2
    /\ overflow[1] = overflow[2]

\* sum of the four counters over slots s
CountersTotal(s) ==
    CatTotal(s, "WALK") + CatTotal(s, "WHEELS")
    + CatTotal(s, "TRANSIT") + CatTotal(s, "CAR")

\* what the slots dropped by logged invocation i held when it dropped them:
\* a committed SlotPassed drops the first len(pre) + 1 - len(post) slots
EvictedAt(i) ==
    IF log[i].kind = "tick" /\ log[i].status = "ok"
    THEN CountersTotal(SubSeq(PreDoc(i).slots, 1,
                              Len(PreDoc(i).slots) + 1
                              - Len(PostDoc(i).slots)))
    ELSE 0

EvictedTotal ==
    LET f[i \in 0..Len(log)] == IF i = 0 THEN 0 ELSE f[i - 1] + EvictedAt(i)
    IN  f[Len(log)]

\* committed EventAdded runs of known categories so far
EventsCommitted ==
    Cardinality({i \in 1..Len(log) :
        log[i].kind = "event" /\ log[i].status = "ok"
        /\ log[i].type \in Categories})

\* C19: from a document without slots and overflow, after any sequence of
\* committed EventAdded (known categories) and SlotPassed runs, the number of
\* committed events equals the sum of all counters in the retained slots, plus
\* the entries of known categories in overflow, plus the counters the evicted
\* slots held when they were evicted.
C19_Conservation ==
    EventsCommitted =
        CountersTotal(slots)
        + Cardinality({i \in 1..Len(overflow) :
                          overflow[i].type \in Categories})
        + EvictedTotal

\* a slot that held a counted event has been evicted
C19_Witness ==
    /\ EvictedTotal >= 1
    /\ EventsCommitted >= 1
    /\ CountersTotal(slots) = 0

\* logged invocation i is a committed EventAdded or SlotPassed
CommittedAt(i) == log[i].kind \in {"event", "tick"} /\ log[i].status = "ok"

\* start of the first slot ever created: the first committed invocation found
\* no slots and created it
FirstStart ==
    LET first == CHOOSE i \in 1..Len(log) :
                     CommittedAt(i) /\ \A j \in 1..(i - 1) : ~CommittedAt(j)
    IN  PostDoc(first).slots[1].bounds.start

\* number of slots ever created: one per committed SlotPassed, and one for an
\* EventAdded that found no slots
SlotsCreated ==
    Cardinality({i \in 1..Len(log) :
        CommittedAt(i) /\ (log[i].kind = "tick" \/ PreDoc(i).slots = <<>>)})

\* logged invocation i is a committed SlotPassed whose timestamp lies beyond
\* the end of the slot it created
LateTick(i) ==
    /\ log[i].kind = "tick"
    /\ log[i].status = "ok"
    /\ log[i].now > LastOf(PostDoc(i).slots).bounds.end

\* C20: from a document without slots, lastSlot.end is always
\* s0 + k * timespan * 60 - 1, with s0 the start of the first slot ever
\* created and k the number of slots ever created; a committed SlotPassed moves
\* lastSlot.end on by exactly timespan * 60 whatever its timestamp, so after a
\* SlotPassed that commits later than the end of the slot it created, the
\* events that follow (until the next SlotPassed) go to overflow, not to a
\* slot.
C20_WindowPosition ==
    /\ slots # <<>> =>
          LastOf(slots).bounds.end
              = FirstStart + SlotsCreated * timespan * 60 - 1
    /\ (Committed("tick") /\ Last.pre.slots # <<>>) =>
          LastOf(slots).bounds.end
              = LastOf(Last.pre.slots).bounds.end + timespan * 60
    /\ \A i \in 1..Len(log), j \in 1..Len(log) :
          (/\ i < j
           /\ LateTick(i)
           /\ log[j].kind = "event" /\ log[j].status = "ok"
           /\ log[j].now >= log[i].now
           /\ \A k \in (i + 1)..(j - 1) :
                 ~(log[k].kind = "tick" /\ log[k].status = "ok"))
          => BufferedAt(j)

\* after a gap the tick created a slot that had ended already, and the event
\* that followed it was buffered
C20_Witness ==
    /\ Len(log) >= 3
    /\ Committed("event")
    /\ Last.type \in Categories
    /\ LateTick(Len(log) - 1)
    /\ PreDoc(Len(log) - 1).slots # <<>>
    /\ BufferedAt(Len(log))
    /\ SlotsCreated = 2

====
